---- MODULE Spec2Model ----
(***************************************************************************)
(* Model of the two onRequest handlers of the repository:                  *)
(*   "chat"    src/functions/api/chat.js  (bidirectional, text + mode)     *)
(*   "part000" src/unnamed/part_000       (single direction, text only)    *)
(* One behaviour is one invocation of one handler.  The handler suspends   *)
(* at its awaits (request.json(), fetch(), apiResponse.json()); every      *)
(* action is the synchronous code between two suspension points.           *)
(*                                                                         *)
(* JavaScript values are tagged records; a JavaScript string is a sequence *)
(* of tokens (whitespace characters are tokens of their own), so that      *)
(* trim() and template interpolation are computed, not assumed.            *)
(***************************************************************************)
EXTENDS Integers, Sequences, FiniteSets, TLC

VARIABLES variant, method, GEMINI_API_KEY, body, pc, bodyUsed, requestData,
          fetched, apiResponse, caught, responses

vars == <<variant, method, GEMINI_API_KEY, body, pc, bodyUsed, requestData,
          fetched, apiResponse, caught, responses>>

\* Longest upstream text, in tokens.
MaxLen == 3

----------------------------------------------------------------------------
\* JavaScript values

Undef == [t |-> "undefined"]
JNull == [t |-> "null"]
JStr(s) == [t |-> "string", s |-> s]
JNum(n) == [t |-> "number", n |-> n]
JArr(items) == [t |-> "array", items |-> items]
JObj(f) == [t |-> "object", f |-> f]

\* v is undefined or null: a property access on v raises a TypeError.
Nullish(v) == v.t \in {"undefined", "null"}

\* JavaScript truthiness, as used by !x, x || y and x && y.
Truthy(v) ==
    CASE v.t = "undefined" -> FALSE
      [] v.t = "null" -> FALSE
      [] v.t = "string" -> v.s # <<>>
      [] v.t = "number" -> v.n # 0
      [] OTHER -> TRUE

\* v.k for a v that is not nullish; a missing property reads as undefined.
Get(v, k) ==
    IF v.t = "object" /\ k \in DOMAIN v.f THEN v.f[k] ELSE Undef

\* v[i] (0-based) for a v that is not nullish.
Index(v, i) ==
    IF v.t = "array" /\ i + 1 <= Len(v.items) THEN v.items[i + 1] ELSE Undef

\* `${v}` inside a template literal.
Interpolate(v) ==
    CASE v.t = "string" -> v.s
      [] v.t = "number" -> <<ToString(v.n)>>
      [] OTHER -> <<v.t>>

----------------------------------------------------------------------------
\* String.prototype.trim

IsWhitespace(c) == c \in {" ", "\n"}

RECURSIVE TrimStart(_)
TrimStart(s) ==
    IF s # <<>> /\ IsWhitespace(Head(s)) THEN TrimStart(Tail(s)) ELSE s

RECURSIVE TrimEnd(_)
TrimEnd(s) ==
    IF s # <<>> /\ IsWhitespace(s[Len(s)])
    THEN TrimEnd(SubSeq(s, 1, Len(s) - 1))
    ELSE s

Trim_startOnly(s) == TrimStart(s)

Trim(s) == TrimEnd(TrimStart(s))

----------------------------------------------------------------------------
\* Messages of the errors the handlers can raise

SyntaxErrorMessage == <<"Unexpected token in JSON">>
TypeErrorMessage == <<"Cannot read properties of undefined or null">>
TrimTypeErrorMessage == <<"translation.trim is not a function">>
NetworkErrorMessage == <<"fetch failed">>

FallbackTranslation == <<"Translation not found.">>

----------------------------------------------------------------------------
\* Responses

PlainResponse(status, text) ==
    [status |-> status, contentType |-> "text/plain", body |-> [text |-> text]]

JsonResponse(status, b) ==
    [status |-> status, contentType |-> "application/json", body |-> b]

MethodNotAllowed == PlainResponse(405, <<"Method Not Allowed">>)

KeyNotSetMessage(v) ==
    IF v = "chat" THEN <<"GEMINI_API_KEY is not set in Cloudflare">>
    ELSE <<"GEMINI_API_KEY is not set">>

KeyNotSet(v) == JsonResponse(500, [error |-> KeyNotSetMessage(v)])

CatchResponse_badRequest(message) == JsonResponse(400, [error |-> message])

\* The catch block of either handler.
CatchResponse(message) == JsonResponse(500, [error |-> message])

----------------------------------------------------------------------------
\* Inputs of one invocation

Variants == {"chat", "part000"}

Methods == {"POST", "GET", "PUT"}

ApiKeys == {Undef, JStr(<<>>), JStr(<<"secret">>)}

RequestTexts == {Undef, JStr(<<>>), JStr(<<"Hello">>), JStr(<<"H3110", " ", "W0r1d">>)}

RequestModes ==
    {Undef, JStr(<<>>), JStr(<<"toLeet">>), JStr(<<"fromLeet">>), JStr(<<"reverse">>)}

\* What request.json() can produce: a SyntaxError, null, or an object.
Unparseable == [parses |-> FALSE]
Parsed(v) == [parses |-> TRUE, json |-> v]

RequestBodies ==
    {Unparseable, Parsed(JNull)}
    \cup {Parsed(JObj([text |-> x, mode |-> m])) : x \in RequestTexts, m \in RequestModes}

----------------------------------------------------------------------------
\* What the upstream can answer

Tokens == {" ", "\n", "Hello"}

Strings == UNION {[1..n -> Tokens] : n \in 0..MaxLen}

UpstreamTexts == {Undef, JNum(5)} \cup {JStr(s) : s \in Strings}

UpstreamParts ==
    {Undef, JArr(<<>>)} \cup {JArr(<<JObj([text |-> x])>>) : x \in UpstreamTexts}

UpstreamContents == {Undef} \cup {JObj([parts |-> p]) : p \in UpstreamParts}

UpstreamCandidates ==
    {Undef, JArr(<<>>)} \cup {JArr(<<JObj([content |-> c])>>) : c \in UpstreamContents}

SuccessBodies ==
    {Unparseable, Parsed(JNull)}
    \cup {Parsed(JObj([candidates |-> c])) : c \in UpstreamCandidates}

UpstreamMessages == {Undef, JStr(<<>>), JStr(<<"quota exceeded">>)}

UpstreamErrors == {Undef} \cup {JObj([message |-> m]) : m \in UpstreamMessages}

ErrorBodies ==
    {Unparseable, Parsed(JNull)} \cup {Parsed(JObj([error |-> e])) : e \in UpstreamErrors}

ErrorStatuses == {<<429, "Too Many Requests">>, <<503, "Service Unavailable">>}

UpstreamResponses ==
    {[ok |-> TRUE, status |-> 200, statusText |-> "OK", body |-> b] : b \in SuccessBodies}
    \cup {[ok |-> FALSE, status |-> st[1], statusText |-> st[2], body |-> b] :
            st \in ErrorStatuses, b \in ErrorBodies}

----------------------------------------------------------------------------
\* Prompt construction and the upstream request

ToLeetHead == "chat.js: English to Leet, substitutions and slang, result only. English: "
ToLeetTail == "Leet translation:"
FromLeetHead == "chat.js: Leet to natural English, result only. Leet: "
FromLeetTail == "English translation:"
Part000Head == "part_000: Leet to natural English, result only. Leet: "
Part000Tail == "English translation:"

Template(head, text, tail) ==
    <<head, "\"">> \o Interpolate(text) \o <<"\"", tail>>

Prompt_chat_swapped(mode, inputText) ==
    IF mode = JStr(<<"fromLeet">>)
    THEN Template(ToLeetHead, inputText, ToLeetTail)
    ELSE Template(FromLeetHead, inputText, FromLeetTail)

\* chat.js: the prompt is switched on mode; everything but 'toLeet' is the else branch.
Prompt_chat(mode, inputText) ==
    IF mode = JStr(<<"toLeet">>)
    THEN Template(ToLeetHead, inputText, ToLeetTail)
    ELSE Template(FromLeetHead, inputText, FromLeetTail)

Prompt_part000(leetText) == Template(Part000Head, leetText, Part000Tail)

SafetySettings ==
    {"HARM_CATEGORY_HARASSMENT", "HARM_CATEGORY_HATE_SPEECH",
     "HARM_CATEGORY_SEXUALLY_EXPLICIT", "HARM_CATEGORY_DANGEROUS_CONTENT"}

geminiApiUrl(key) ==
    <<"https://generativelanguage.googleapis.com/v1beta/models/gemini-2.5-flash:generateContent?key=">>
    \o Interpolate(key)

apiRequestBody(prompt) ==
    [url |-> geminiApiUrl(GEMINI_API_KEY), method |-> "POST",
     prompt |-> prompt, safetySettings |-> SafetySettings]

----------------------------------------------------------------------------
\* Validation of the parsed request body (requestData is not nullish)

MissingFields_chat(data) == ~Truthy(Get(data, "text")) \/ ~Truthy(Get(data, "mode"))

MissingFields_part000(data) == ~Truthy(Get(data, "text"))

NoFieldsResponse_chat == JsonResponse(400, [error |-> <<"No text or mode provided">>])

NoFieldsResponse_part000 == JsonResponse(400, [error |-> <<"No text provided">>])

----------------------------------------------------------------------------
\* Extraction of the translation from the parsed upstream body.
\* The result is either a raised error or the value of `translation`.

Raised(message) == [thrown |-> TRUE, message |-> message]
Value(v) == [thrown |-> FALSE, value |-> v]

\* chat.js: every link is tested with && before the next one is read.
Translation_chat(responseData) ==
    IF Nullish(responseData) THEN Raised(TypeErrorMessage)
    ELSE IF /\ Truthy(Get(responseData, "candidates"))
            /\ Truthy(Index(Get(responseData, "candidates"), 0))
            /\ Truthy(Get(Index(Get(responseData, "candidates"), 0), "content"))
            /\ Truthy(Get(Get(Index(Get(responseData, "candidates"), 0), "content"), "parts"))
            /\ Truthy(Index(Get(Get(Index(Get(responseData, "candidates"), 0),
                                    "content"), "parts"), 0))
            /\ Truthy(Get(Index(Get(Get(Index(Get(responseData, "candidates"), 0),
                                        "content"), "parts"), 0), "text"))
         THEN Value(Get(Index(Get(Get(Index(Get(responseData, "candidates"), 0),
                                      "content"), "parts"), 0), "text"))
         ELSE Value(JStr(FallbackTranslation))

\* part_000: responseData.candidates[0]?.content?.parts[0]?.text || fallback.
\* Only the links followed by ?. are guarded: candidates and parts are indexed as they are.
Translation_part000(responseData) ==
    IF Nullish(responseData) THEN Raised(TypeErrorMessage)
    ELSE LET candidates == Get(responseData, "candidates") IN
      IF Nullish(candidates) THEN Raised(TypeErrorMessage)
      ELSE LET first == Index(candidates, 0) IN
        IF Nullish(first) THEN Value(JStr(FallbackTranslation))
        ELSE LET content == Get(first, "content") IN
          IF Nullish(content) THEN Value(JStr(FallbackTranslation))
          ELSE LET parts == Get(content, "parts") IN
            IF Nullish(parts) THEN Raised(TypeErrorMessage)
            ELSE LET part == Index(parts, 0) IN
              IF Nullish(part) THEN Value(JStr(FallbackTranslation))
              ELSE IF Truthy(Get(part, "text")) THEN Value(Get(part, "text"))
              ELSE Value(JStr(FallbackTranslation))

\* translation.trim() and the 200 response; trim exists on strings only.
TranslationResponse(extracted) ==
    IF extracted.thrown THEN extracted
    ELSE IF extracted.value.t # "string" THEN Raised(TrimTypeErrorMessage)
    ELSE Value(JsonResponse(200, [translation |-> Trim(extracted.value.s)]))

\* chat.js: errorBody.error?.message || `Gemini API error: ${apiResponse.status}`
ErrorMessage_chat(errorBody, status) ==
    IF Nullish(errorBody) THEN TypeErrorMessage
    ELSE LET error == Get(errorBody, "error")
             message == IF Nullish(error) THEN Undef ELSE Get(error, "message")
         IN  IF Truthy(message) THEN Interpolate(message)
             ELSE <<"Gemini API error: ", ToString(status)>>

\* part_000: `Gemini API error: ${apiResponse.status} ${apiResponse.statusText}`
ErrorMessage_part000(status, statusText) ==
    <<"Gemini API error: ", ToString(status), " ", statusText>>

----------------------------------------------------------------------------
\* The handler

Init ==
    /\ variant \in Variants
    /\ method \in Methods
    /\ GEMINI_API_KEY \in ApiKeys
    /\ body \in RequestBodies
    /\ pc = "start"
    /\ bodyUsed = FALSE
    /\ requestData = <<>>
    /\ fetched = <<>>
    /\ apiResponse = <<>>
    /\ caught = <<>>
    /\ responses = <<>>

inputs == <<variant, method, GEMINI_API_KEY, body>>

\* context.request.method !== 'POST'
NotPost_put == method \notin {"POST", "PUT"}

NotPost == method # "POST"

\* !GEMINI_API_KEY
KeyMissing_undefinedOnly == GEMINI_API_KEY = Undef

KeyMissing == ~Truthy(GEMINI_API_KEY)

\* return new Response(...)
Return(response) ==
    /\ responses' = Append(responses, response)
    /\ pc' = "done"

\* An error raised inside try: the catch block answers with its message.
Catch(message) ==
    /\ caught' = Append(caught, message)
    /\ Return(CatchResponse(message))

MethodGate ==
    /\ pc = "start"
    /\ NotPost
    /\ Return(MethodNotAllowed)
    /\ UNCHANGED <<inputs, bodyUsed, requestData, fetched, apiResponse, caught>>

ConfigCheck ==
    /\ pc = "start"
    /\ ~NotPost
    /\ KeyMissing
    /\ Return(KeyNotSet(variant))
    /\ UNCHANGED <<inputs, bodyUsed, requestData, fetched, apiResponse, caught>>

\* await context.request.json() is reached
ReadBody ==
    /\ pc = "start"
    /\ ~NotPost
    /\ ~KeyMissing
    /\ bodyUsed' = TRUE
    /\ pc' = "awaitRequestJson"
    /\ UNCHANGED <<inputs, requestData, fetched, apiResponse, caught, responses>>

\* request.json() rejects
RequestJsonRejected ==
    /\ pc = "awaitRequestJson"
    /\ ~body.parses
    /\ Catch(SyntaxErrorMessage)
    /\ UNCHANGED <<inputs, bodyUsed, requestData, fetched, apiResponse>>

\* request.json() resolves: validation, prompt, fetch() is called
RequestJsonResolved ==
    /\ pc = "awaitRequestJson"
    /\ body.parses
    /\ requestData' = <<body.json>>
    /\ IF Nullish(body.json)
       THEN Catch(TypeErrorMessage) /\ UNCHANGED fetched
       ELSE IF variant = "chat"
       THEN IF MissingFields_chat(body.json)
            THEN Return(NoFieldsResponse_chat) /\ UNCHANGED <<fetched, caught>>
            ELSE /\ fetched' = Append(fetched, apiRequestBody(
                        Prompt_chat(Get(body.json, "mode"), Get(body.json, "text"))))
                 /\ pc' = "awaitFetch"
                 /\ UNCHANGED <<caught, responses>>
       ELSE IF MissingFields_part000(body.json)
            THEN Return(NoFieldsResponse_part000) /\ UNCHANGED <<fetched, caught>>
            ELSE /\ fetched' = Append(fetched, apiRequestBody(
                        Prompt_part000(Get(body.json, "text"))))
                 /\ pc' = "awaitFetch"
                 /\ UNCHANGED <<caught, responses>>
    /\ UNCHANGED <<inputs, bodyUsed, apiResponse>>

FetchRejected_retry ==
    /\ pc = "awaitFetch"
    /\ Len(fetched) < 2
    /\ fetched' = Append(fetched, fetched[1])
    /\ UNCHANGED <<inputs, pc, bodyUsed, requestData, apiResponse, caught, responses>>

\* fetch() rejects: network failure
FetchRejected ==
    /\ pc = "awaitFetch"
    /\ Catch(NetworkErrorMessage)
    /\ UNCHANGED <<inputs, bodyUsed, requestData, fetched, apiResponse>>

\* fetch() resolves with an upstream response
FetchResolved ==
    /\ pc = "awaitFetch"
    /\ \E r \in UpstreamResponses :
        /\ apiResponse' = <<r>>
        /\ IF r.ok
           THEN pc' = "awaitResponseJson" /\ UNCHANGED <<caught, responses>>
           ELSE IF variant = "chat"
           THEN pc' = "awaitErrorJson" /\ UNCHANGED <<caught, responses>>
           ELSE Catch(ErrorMessage_part000(r.status, r.statusText))
    /\ UNCHANGED <<inputs, bodyUsed, requestData, fetched>>

\* chat.js only: await apiResponse.json() of a non-success response, then throw
ErrorJsonSettled ==
    /\ pc = "awaitErrorJson"
    /\ IF apiResponse[1].body.parses
       THEN Catch(ErrorMessage_chat(apiResponse[1].body.json, apiResponse[1].status))
       ELSE Catch(SyntaxErrorMessage)
    /\ UNCHANGED <<inputs, bodyUsed, requestData, fetched, apiResponse>>

\* apiResponse.json() of a success response rejects
ResponseJsonRejected ==
    /\ pc = "awaitResponseJson"
    /\ ~apiResponse[1].body.parses
    /\ Catch(SyntaxErrorMessage)
    /\ UNCHANGED <<inputs, bodyUsed, requestData, fetched, apiResponse>>

\* apiResponse.json() of a success response resolves: extraction, trim, 200
ResponseJsonResolved ==
    /\ pc = "awaitResponseJson"
    /\ apiResponse[1].body.parses
    /\ LET responseData == apiResponse[1].body.json
           result == TranslationResponse(
                        IF variant = "chat" THEN Translation_chat(responseData)
                        ELSE Translation_part000(responseData))
       IN  IF result.thrown
           THEN Catch(result.message)
           ELSE Return(result.value) /\ UNCHANGED caught
    /\ UNCHANGED <<inputs, bodyUsed, requestData, fetched, apiResponse>>

onRequest ==
    \/ MethodGate
    \/ ConfigCheck
    \/ ReadBody
    \/ RequestJsonRejected
    \/ RequestJsonResolved
    \/ FetchRejected
    \/ FetchResolved
    \/ ErrorJsonSettled
    \/ ResponseJsonRejected
    \/ ResponseJsonResolved

Next == onRequest

Spec == Init /\ [][Next]_vars

\* Every await of the handler settles: the body read and the upstream call
\* each complete with success or failure.
FairSpec == Spec /\ WF_vars(Next)

TypeOK ==
    /\ pc \in {"start", "awaitRequestJson", "awaitFetch", "awaitErrorJson",
               "awaitResponseJson", "done"}
    /\ bodyUsed \in BOOLEAN
    /\ Len(requestData) <= 1
    /\ Len(apiResponse) <= 1

----------------------------------------------------------------------------
\* Vocabulary of the properties

Done == pc = "done"

\* v.k and v[i] read defensively: a nullish v has no links.
SafeGet(v, k) == IF Nullish(v) THEN Undef ELSE Get(v, k)
SafeIndex(v, i) == IF Nullish(v) THEN Undef ELSE Index(v, i)

\* candidates -> [0] -> content -> parts -> [0] -> text, undefined when a link is missing
PathText(data) ==
    SafeGet(SafeIndex(SafeGet(SafeGet(SafeIndex(SafeGet(data, "candidates"), 0),
                                      "content"), "parts"), 0), "text")

\* x is t without its leading and trailing whitespace
IsTrimOf(x, t) ==
    \E i \in 1..(Len(t) + 1), j \in 0..Len(t) :
        /\ x = SubSeq(t, i, j)
        /\ \A k \in 1..(i - 1) : IsWhitespace(t[k])
        /\ \A k \in (j + 1)..Len(t) : IsWhitespace(t[k])
        /\ x # <<>> => ~IsWhitespace(x[1]) /\ ~IsWhitespace(x[Len(x)])

UpstreamSucceeded == apiResponse # <<>> /\ apiResponse[1].ok

UpstreamFailed == apiResponse # <<>> /\ ~apiResponse[1].ok

IsError(r, status) ==
    /\ r.status = status
    /\ r.contentType = "application/json"
    /\ DOMAIN r.body = {"error"}

----------------------------------------------------------------------------
\* C1: in both handlers, an upstream success whose JSON object lacks
\* `candidates` or any later link of candidates[0].content.parts[0].text is
\* answered with 200 { translation: "Translation not found." }, never with 500.
C1_FallbackOnMissingLink ==
    (/\ Done
     /\ UpstreamSucceeded
     /\ apiResponse[1].body.parses
     /\ apiResponse[1].body.json.t = "object"
     /\ PathText(apiResponse[1].body.json) = Undef)
    => responses = <<JsonResponse(200, [translation |-> FallbackTranslation])>>

\* C2: chat.js rejects a POST with a non-empty text and a mode that is neither
\* "toLeet" nor "fromLeet" with 400 and an error field, without an upstream request.
C2_InvalidModeRejected ==
    (/\ variant = "chat"
     /\ method = "POST"
     /\ GEMINI_API_KEY.t = "string" /\ GEMINI_API_KEY.s # <<>>
     /\ body.parses
     /\ Truthy(SafeGet(body.json, "text"))
     /\ SafeGet(body.json, "mode") \notin {JStr(<<"toLeet">>), JStr(<<"fromLeet">>)})
    => /\ fetched = <<>>
       /\ Done => Len(responses) = 1 /\ IsError(responses[1], 400)

\* C3: chat.js answers an upstream non-success status with 500 { error: m }, m being
\* the upstream body's error.message when it provides one and otherwise, also when
\* the body is not parseable JSON, "Gemini API error: <status>".
C3_UpstreamErrorMessage ==
    (variant = "chat" /\ Done /\ UpstreamFailed)
    => LET r == apiResponse[1]
           m == IF r.body.parses
                THEN SafeGet(SafeGet(r.body.json, "error"), "message")
                ELSE Undef
       IN  responses = <<JsonResponse(500,
                [error |-> IF m.t = "string" /\ m.s # <<>> THEN m.s
                           ELSE <<"Gemini API error: ", ToString(r.status)>>])>>

\* C4: in both handlers, a POST (key configured) whose parsed JSON body is missing
\* `text` or has an empty `text` (or, in chat.js, is missing `mode`) is answered
\* with 400 and an error field, and no upstream request is issued.
C4_MissingFieldsRejected ==
    (/\ method = "POST"
     /\ GEMINI_API_KEY.t = "string" /\ GEMINI_API_KEY.s # <<>>
     /\ body.parses
     /\ \/ SafeGet(body.json, "text") \in {Undef, JStr(<<>>)}
        \/ variant = "chat" /\ SafeGet(body.json, "mode") = Undef)
    => /\ fetched = <<>>
       /\ Done => Len(responses) = 1 /\ IsError(responses[1], 400)

\* C5: without the API key every POST is answered with 500 and a JSON error field
\* whatever the body is; the body is never read and no upstream request is issued.
C5_MissingKeyIs500 ==
    (method = "POST" /\ (GEMINI_API_KEY = Undef \/ GEMINI_API_KEY = JStr(<<>>)))
    => /\ ~bodyUsed
       /\ requestData = <<>>
       /\ fetched = <<>>
       /\ pc \in {"start", "done"}
       /\ Done => Len(responses) = 1 /\ IsError(responses[1], 500)

C5_Witness ==
    /\ Done
    /\ method = "POST"
    /\ GEMINI_API_KEY = Undef
    /\ ~body.parses
    /\ Len(responses) = 1
    /\ responses[1].status = 500

\* C6: every request whose method is not POST is answered with 405 and a plain-text
\* body, whatever the body and the key are; the body is not read and no upstream
\* request is issued.
C6_NonPostIs405 ==
    (method # "POST")
    => /\ ~bodyUsed
       /\ requestData = <<>>
       /\ fetched = <<>>
       /\ pc \in {"start", "done"}
       /\ Done => /\ Len(responses) = 1
                  /\ responses[1].status = 405
                  /\ responses[1].contentType = "text/plain"
                  /\ DOMAIN responses[1].body = {"text"}

C6_Witness ==
    /\ Done
    /\ method = "GET"
    /\ GEMINI_API_KEY = Undef
    /\ body.parses
    /\ Len(responses) = 1
    /\ responses[1].status = 405

\* C7: in chat.js the prompt sent for mode "toLeet" is the English-to-leet template
\* around the input text and the prompt sent for mode "fromLeet" is the
\* leet-to-English template around it; the templates differ and are never exchanged.
C7_PromptMatchesMode ==
    (variant = "chat" /\ fetched # <<>>)
    => LET mode == Get(requestData[1], "mode")
           text == Get(requestData[1], "text")
       IN  \A i \in DOMAIN fetched :
             /\ <<ToLeetHead, ToLeetTail>> # <<FromLeetHead, FromLeetTail>>
             /\ mode = JStr(<<"toLeet">>) =>
                  /\ fetched[i].prompt = <<ToLeetHead, "\"">> \o text.s \o <<"\"", ToLeetTail>>
                  /\ Head(fetched[i].prompt) # FromLeetHead
             /\ mode = JStr(<<"fromLeet">>) =>
                  /\ fetched[i].prompt = <<FromLeetHead, "\"">> \o text.s \o <<"\"", FromLeetTail>>
                  /\ Head(fetched[i].prompt) # ToLeetHead

C7_Witness ==
    /\ variant = "chat"
    /\ Len(fetched) = 1
    /\ Get(requestData[1], "mode") = JStr(<<"toLeet">>)
    /\ Head(fetched[1].prompt) = ToLeetHead

\* C8: in both handlers every failure after the method and configuration gates
\* (malformed request JSON, fetch rejection, upstream non-success status, a runtime
\* error during extraction) is answered with 500 { error: <message of the failure> };
\* malformed JSON gives 500, never 400, and every failure gets a response.
C8_FailuresAre500 ==
    /\ caught # <<>> =>
          /\ Done
          /\ Len(caught) = 1
          /\ responses = <<JsonResponse(500, [error |-> caught[1]])>>
    /\ Done =>
          /\ Len(responses) = 1
          /\ (bodyUsed /\ ~body.parses) =>
                responses = <<JsonResponse(500, [error |-> SyntaxErrorMessage])>>
          /\ (fetched # <<>> /\ apiResponse = <<>>) =>
                responses = <<JsonResponse(500, [error |-> NetworkErrorMessage])>>
          /\ UpstreamFailed => caught # <<>> /\ IsError(responses[1], 500)
          /\ (UpstreamSucceeded /\ ~apiResponse[1].body.parses) =>
                responses = <<JsonResponse(500, [error |-> SyntaxErrorMessage])>>
          /\ (UpstreamSucceeded /\ apiResponse[1].body.parses
                /\ PathText(apiResponse[1].body.json).t = "number") =>
                caught # <<>> /\ IsError(responses[1], 500)

C8_Witness ==
    /\ Done
    /\ bodyUsed
    /\ ~body.parses
    /\ caught = <<SyntaxErrorMessage>>
    /\ Len(responses) = 1
    /\ responses[1].status = 500

\* C9: in both handlers a valid POST whose upstream call succeeds with a non-empty
\* string t at candidates[0].content.parts[0].text is answered with
\* 200 { translation: trim(t) }; a 200 is produced only after the upstream call was
\* issued and returned a success status.
C9_TrimmedTranslation ==
    /\ (/\ Done
        /\ UpstreamSucceeded
        /\ apiResponse[1].body.parses
        /\ PathText(apiResponse[1].body.json).t = "string"
        /\ PathText(apiResponse[1].body.json).s # <<>>)
       => /\ Len(responses) = 1
          /\ responses[1].status = 200
          /\ responses[1].contentType = "application/json"
          /\ DOMAIN responses[1].body = {"translation"}
          /\ IsTrimOf(responses[1].body.translation, PathText(apiResponse[1].body.json).s)
    /\ \A i \in DOMAIN responses :
          responses[i].status = 200 => Len(fetched) = 1 /\ UpstreamSucceeded

C9_Witness ==
    /\ Done
    /\ UpstreamSucceeded
    /\ apiResponse[1].body.parses
    /\ PathText(apiResponse[1].body.json) = JStr(<<" ", "Hello", "\n">>)
    /\ responses = <<JsonResponse(200, [translation |-> <<"Hello">>])>>

\* C10: every invocation issues at most one upstream request and produces exactly
\* one response; the upstream request is issued only after the body was read and
\* validated, it is never issued again after a network failure or a non-success
\* status (the invocation ends with one 500 response), and, the awaits settling,
\* every invocation eventually responds.
C10_OneRequestOneResponse ==
    /\ [](/\ Len(fetched) <= 1
          /\ Len(responses) <= 1
          /\ Done <=> Len(responses) = 1
          /\ fetched # <<>> =>
                /\ bodyUsed
                /\ requestData = <<body.json>>
                /\ Truthy(SafeGet(body.json, "text"))
                /\ variant = "chat" => Truthy(SafeGet(body.json, "mode"))
          /\ (Done /\ fetched # <<>> /\ ~UpstreamSucceeded) =>
                IsError(responses[1], 500))
    /\ [][/\ fetched # <<>> => fetched' = fetched
          /\ responses # <<>> => responses' = responses]_vars
    /\ <>(Len(responses) = 1)

C10_Witness ==
    /\ Done
    /\ Len(fetched) = 1
    /\ apiResponse = <<>>
    /\ caught = <<NetworkErrorMessage>>
    /\ Len(responses) = 1
    /\ responses[1].status = 500

====
